---- MODULE Spec2Model ----
(***************************************************************************)
(* Model of .github/scripts/analyze-variance.py: the run selector, the     *)
(* artifact collector, the statistics engine and the report renderer.      *)
(*                                                                         *)
(* Numbers.  A duration is an integer number of ticks, one tick being      *)
(* 10 ns (1e-8 s), so that the microsecond rendering with two decimals is  *)
(* exact.  Where the program divides or takes a square root in floating    *)
(* point, the model rounds the exact result to the nearest tick.  A ratio  *)
(* (the coefficient of variation, the range coefficient) is kept as the    *)
(* exact fraction num/den; NaN is a value of its own.                      *)
(***************************************************************************)
EXTENDS Integers, Sequences, FiniteSets, TLC

VARIABLES
    pc,             \* position of main: "start", "enter", "list", "download",
                    \* "parse", "check", "min", "mean", "done"; "idle" outside main
    args_ids,       \* args.workflow_run_ids: <<>> stands for None (flag not given)
    run_ids,        \* main's run_ids
    i,              \* collect_jsons: index of run_id in run_ids
    perf_artifacts, \* collect_jsons: the current run's filtered artifact list
    j,              \* collect_jsons: index of artifact in perf_artifacts
    pending,        \* collect_jsons: file stems out_dir.glob has still to yield
    tmp,            \* the TemporaryDirectory: [exists, dirs]
    by_bench,       \* the benchmark groups: [order, groups]
    collected,      \* TRUE once collect_jsons has returned to main
    log,            \* history: remote calls, extractions and parses, in order
    diag,           \* history: diagnostics printed
    passes,         \* output of analyze: one entry per completed pass
    exit_status,    \* process exit status; -1 while running
    traceback,      \* the unhandled exception that ended the process, or "none"
    values,         \* input of a direct call of stats
    s_out,          \* result of a direct call of stats
    seconds,        \* input of a direct call of format_duration
    text            \* result of a direct call of format_duration

vars == <<pc, args_ids, run_ids, i, perf_artifacts, j, pending, tmp, by_bench,
          collected, log, diag, passes, exit_status, traceback,
          values, s_out, seconds, text>>

(***************************************************************************)
(* Bounds of the model.                                                    *)
(***************************************************************************)
MaxRuns == 2      \* run identifiers on the command line / runs in a listing
MaxVal == 2       \* a value is k * Step ticks, k in -MaxVal..MaxVal
MaxN == 3         \* length of a value list given to stats directly
MaxGroup == 2     \* results per benchmark group handed to analyze directly
MaxDelta == 12    \* format_duration inputs lie within MaxDelta ticks of a threshold

Step == 12 * 100  \* granularity of the values in result files, in ticks (12 us)

(***************************************************************************)
(* Arithmetic helpers.                                                     *)
(***************************************************************************)
Abs(x) == IF x < 0 THEN -x ELSE x

\* a / b (b > 0) rounded to the nearest integer, ties to even
RoundDiv(a, b) ==
    LET q == a \div b
        r == a % b
    IN  IF 2 * r < b THEN q
        ELSE IF 2 * r > b THEN q + 1
        ELSE IF q % 2 = 0 THEN q ELSE q + 1

RECURSIVE IsqrtBin(_, _, _)
\* the largest k in lo..hi with k * k <= x (lo * lo <= x < (hi + 1) * (hi + 1))
IsqrtBin(x, lo, hi) ==
    IF lo >= hi THEN lo
    ELSE LET mid == (lo + hi + 1) \div 2
         IN  IF mid * mid <= x THEN IsqrtBin(x, mid, hi) ELSE IsqrtBin(x, lo, mid - 1)

\* math.sqrt(x), x >= 0, rounded to the nearest integer
Sqrt(x) ==
    LET k == IsqrtBin(x, 0, 30000)
    IN  IF x - k * k > k THEN k + 1 ELSE k

RECURSIVE SumSeq(_)
SumSeq(q) == IF q = <<>> THEN 0 ELSE Head(q) + SumSeq(Tail(q))

RECURSIVE MaxSeq(_)
MaxSeq(q) ==
    IF Len(q) = 1 THEN q[1]
    ELSE LET m == MaxSeq(Tail(q)) IN IF q[1] >= m THEN q[1] ELSE m

RECURSIVE MinSeq(_)
MinSeq(q) ==
    IF Len(q) = 1 THEN q[1]
    ELSE LET m == MinSeq(Tail(q)) IN IF q[1] <= m THEN q[1] ELSE m

(***************************************************************************)
(* format_duration: the rendered text is [unit, digits]; digits is the     *)
(* number shown with its decimal point removed (2 decimals for "us" and    *)
(* "ms", 3 for "s").                                                       *)
(***************************************************************************)
\* faulty variant: the thresholds compared with <= instead of <
format_duration_le(secs) ==
    IF secs <= 100000 THEN [unit |-> "us", digits |-> secs]
    ELSE IF secs <= 100000000 THEN [unit |-> "ms", digits |-> RoundDiv(secs, 1000)]
    ELSE [unit |-> "s", digits |-> RoundDiv(secs, 100000)]

format_duration(secs) ==
    \* ms = seconds * 1000: ms < 1 iff secs < 10^5 ticks, ms < 1000 iff secs < 10^8
    IF secs < 100000 THEN [unit |-> "us", digits |-> secs]
    ELSE IF secs < 100000000 THEN [unit |-> "ms", digits |-> RoundDiv(secs, 1000)]
    ELSE [unit |-> "s", digits |-> RoundDiv(secs, 100000)]

(***************************************************************************)
(* stats.                                                                  *)
(***************************************************************************)
NaN == [nan |-> TRUE, num |-> 0, den |-> 1]
Frac(n, d) == [nan |-> FALSE, num |-> n, den |-> d]

\* f"{x * 100:.1f}%" if not math.isnan(x) else "N/A".  The sign is printed
\* for every negative float, -0.0 included.
format_percent(x) ==
    IF x.nan THEN [na |-> TRUE, neg |-> FALSE, tenths |-> 0]
    ELSE [na |-> FALSE,
          neg |-> (x.den < 0) /= (x.num < 0) \/ (x.num = 0 /\ x.den < 0),
          tenths |-> RoundDiv(Abs(x.num) * 1000, Abs(x.den))]

\* a < b on fractions that are not NaN
FracLess(a, b) ==
    LET sa == IF a.den < 0 THEN -1 ELSE 1
        sb == IF b.den < 0 THEN -1 ELSE 1
    IN  (a.num * sa) * (b.den * sb) < (b.num * sb) * (a.den * sa)

\* sum(values) / n
average_of(vals) ==
    LET total == SumSeq(vals)
    IN  IF total >= 0 THEN RoundDiv(total, Len(vals)) ELSE -RoundDiv(-total, Len(vals))

\* faulty variant: the mean of the squares, the average not subtracted
variance_of_raw(vals, average) ==
    RoundDiv(SumSeq([k \in 1..Len(vals) |-> vals[k] * vals[k]]), Len(vals))

\* sum((v - average) ** 2 for v in values) / n
variance_of(vals, average) ==
    RoundDiv(SumSeq([k \in 1..Len(vals) |-> (vals[k] - average) * (vals[k] - average)]),
             Len(vals))

stats(vals) ==
    LET average == average_of(vals)
        variance == variance_of(vals, average)
        std == Sqrt(variance)
        cv == IF average # 0 THEN Frac(std, average) ELSE NaN
        rng == MaxSeq(vals) - MinSeq(vals)
        rc == IF average # 0 THEN Frac(rng, average) ELSE NaN
    IN  [average |-> format_duration(average),
         std |-> format_duration(std),
         cv |-> format_percent(cv),
         range |-> format_duration(rng),
         range_coeff |-> format_percent(rc),
         cv_raw |-> IF ~cv.nan THEN cv ELSE Frac(-1, 1)]

(***************************************************************************)
(* Inputs: what the command line and the remote API can hand the program.  *)
(***************************************************************************)
RunIdSet == {1, 2}
Branch == "main"                       \* args.branch

RECURSIVE SeqsUpTo(_, _)
\* the sequences over S of length 0..n
SeqsUpTo(S, n) ==
    IF n = 0 THEN {<<>>}
    ELSE LET shorter == SeqsUpTo(S, n - 1)
         IN  shorter \cup {Append(q, x) : q \in {r \in shorter : Len(r) = n - 1}, x \in S}

\* --workflow-run-ids: nargs="+" gives a non-empty list, or None (here <<>>)
ArgIds == SeqsUpTo(RunIdSet, MaxRuns)

\* one entry of data["workflow_runs"]
WorkflowRuns == [id : RunIdSet, head_branch : {Branch, "dev"},
                 conclusion : {"success", "failure"}]

\* the responses of the workflow-run listing: runs with distinct identifiers
RunListings ==
    {q \in SeqsUpTo(WorkflowRuns, MaxRuns) :
        \A a, b \in 1..Len(q) : a # b => q[a].id # q[b].id}

\* An artifact name is a sequence of tokens; startswith looks at the first.
PerfLinux == [name |-> <<"perfcompare-", "linux">>]
PerfMacos == [name |-> <<"perfcompare-", "macos">>]
Coverage == [name |-> <<"coverage">>]

\* the responses of a run's artifact listing
ArtifactListings ==
    {<<>>, <<Coverage>>, <<Coverage, PerfLinux>>, <<PerfLinux, PerfMacos>>}

\* The content of one *.json file: valid is whether json.loads and
\* data["results"][0] succeed, keys are the keys of that first result.
Malformed == [valid |-> FALSE, keys |-> {}, min |-> 0, mean |-> 0]
Result(mn, me) == [valid |-> TRUE, keys |-> {"times", "mean", "min"}, min |-> mn, mean |-> me]
NoTimes == [valid |-> TRUE, keys |-> {"mean", "min"}, min |-> Step, mean |-> Step]
NoMin == [valid |-> TRUE, keys |-> {"times", "mean"}, min |-> 0, mean |-> Step]

\* the zip bundles a download can yield: file stem -> content
EmptyDir == [stem \in {} |-> Malformed]
Bundles ==
    {EmptyDir,
     "a" :> Result(Step, 2 * Step),
     ("a" :> Result(2 * Step, 2 * Step)) @@ ("b" :> Result(0, Step)),
     "a" :> NoMin,
     "a" :> NoTimes,
     "a" :> Malformed}

(***************************************************************************)
(* Histories.  log and diag record what the program did; they are not      *)
(* program state.  An event carries the response of a listing in arts.  A  *)
(* result in a group carries the run it was loaded for (run, idx: the      *)
(* position in run_ids), which the program's dicts do not.                 *)
(***************************************************************************)
Event(op, idx, run, name, stem, ok, arts) ==
    [op |-> op, idx |-> idx, run |-> run, name |-> name, stem |-> stem, ok |-> ok,
     arts |-> arts]

Message(msg, stream, run, bench, label, n) ==
    [msg |-> msg, stream |-> stream, run |-> run, bench |-> bench, label |-> label, n |-> n]

EmptyBench == [order |-> <<>>, groups |-> [b \in {} |-> <<>>]]
NoTmp == [exists |-> FALSE, dirs |-> [d \in {} |-> EmptyDir]]

(***************************************************************************)
(* main: run selection.                                                    *)
(***************************************************************************)
\* faulty variant: the supplied identifiers are ignored
use_supplied_never(ids) == FALSE

\* truthiness of args.workflow_run_ids in `args.workflow_run_ids or ...`
use_supplied(ids) == ids # <<>>

IsSuccessOnBranch(r) == r.head_branch = Branch /\ r.conclusion = "success"

\* an unhandled exception outside collect_jsons reaches the top level
Terminate(kind) ==
    /\ pc' = "done"
    /\ exit_status' = 1
    /\ traceback' = kind

main_supplied ==
    /\ pc = "start"
    /\ use_supplied(args_ids)
    /\ run_ids' = args_ids
    /\ pc' = "enter"
    /\ UNCHANGED <<args_ids, i, perf_artifacts, j, pending, tmp, by_bench, collected,
                   log, diag, passes, exit_status, traceback, values, s_out, seconds, text>>

get_run_ids ==
    /\ pc = "start"
    /\ ~use_supplied(args_ids)
    /\ \/ /\ log' = Append(log, Event("list_runs", 0, 0, <<>>, "", FALSE, <<>>))
          /\ Terminate("CalledProcessError")
          /\ UNCHANGED <<run_ids, diag>>
       \/ \E data \in RunListings :
            LET runs == SelectSeq(data, IsSuccessOnBranch)
            IN  /\ log' = Append(log, Event("list_runs", 0, 0, <<>>, "", TRUE, data))
                /\ IF runs = <<>>
                   THEN /\ diag' = Append(diag, Message("no_runs", "stderr", 0, "", "", 0))
                        /\ pc' = "done"
                        /\ exit_status' = 1
                        /\ UNCHANGED <<run_ids, traceback>>
                   ELSE /\ run_ids' = [k \in 1..Len(runs) |-> runs[k].id]
                        /\ pc' = "enter"
                        /\ UNCHANGED <<diag, exit_status, traceback>>
    /\ UNCHANGED <<args_ids, i, perf_artifacts, j, pending, tmp, by_bench, collected,
                   passes, values, s_out, seconds, text>>

(***************************************************************************)
(* collect_jsons.                                                          *)
(***************************************************************************)
\* faulty variant: the directory is left behind (mkdtemp without cleanup)
tmp_exit_leak(t) == t

\* TemporaryDirectory.__exit__: the directory and all it holds are removed
tmp_exit(t) == NoTmp

\* faulty variant: no filter on the artifact name
perf_filter_all(artifacts) == artifacts

\* [a for a in artifacts if a["name"].startswith("perfcompare-")]
startswith_perfcompare(a) == Len(a.name) >= 1 /\ a.name[1] = "perfcompare-"
perf_filter(artifacts) == SelectSeq(artifacts, startswith_perfcompare)

\* by_bench.setdefault(bench_name, []).append(result)
setdefault_append(bb, bench, result) ==
    IF bench \in DOMAIN bb.groups
    THEN [bb EXCEPT !.groups[bench] = Append(@, result)]
    ELSE [order |-> Append(bb.order, bench),
          groups |-> (bench :> <<result>>) @@ bb.groups]

\* zf.extractall(out_dir) after out_dir.mkdir(exist_ok=True): the bundle's
\* files replace those of the same name, the directory's other files stay
extractall(dirs, name, bundle) ==
    LET old == IF name \in DOMAIN dirs THEN dirs[name] ELSE EmptyDir
        new == [stem \in DOMAIN bundle |-> bundle[stem]] @@ old
    IN  (name :> new) @@ dirs

\* an exception raised inside the with block: the block is left, the
\* directory removed, collect_jsons never returns its by_bench
raise_in_collect(kind, events) ==
    /\ log' = log \o events
    /\ tmp' = tmp_exit(tmp)
    /\ by_bench' = EmptyBench
    /\ Terminate(kind)
    /\ UNCHANGED <<args_ids, run_ids, i, perf_artifacts, j, pending, collected, diag,
                   passes, values, s_out, seconds, text>>

collect_enter ==
    /\ pc = "enter"
    /\ tmp' = [exists |-> TRUE, dirs |-> NoTmp.dirs]
    /\ by_bench' = EmptyBench
    /\ i' = 1
    /\ pc' = "list"
    /\ UNCHANGED <<args_ids, run_ids, perf_artifacts, j, pending, collected, log, diag,
                   passes, exit_status, traceback, values, s_out, seconds, text>>

\* faulty variant: a failed listing is treated like an empty one, the run skipped
on_list_failure_skip ==
    /\ log' = Append(log, Event("list_artifacts", i, run_ids[i], <<>>, "", FALSE, <<>>))
    /\ diag' = Append(diag, Message("skip_run", "stdout", run_ids[i], "", "", 0))
    /\ i' = i + 1
    /\ UNCHANGED <<pc, args_ids, run_ids, perf_artifacts, j, pending, tmp, by_bench,
                   collected, passes, exit_status, traceback, values, s_out, seconds, text>>

\* the artifact listing of a run failed (gh exits non-zero, check=True)
on_list_failure ==
    raise_in_collect("CalledProcessError",
                     <<Event("list_artifacts", i, run_ids[i], <<>>, "", FALSE, <<>>)>>)

list_artifacts ==
    /\ pc = "list"
    /\ i <= Len(run_ids)
    /\ \/ on_list_failure
       \/ \E artifacts \in ArtifactListings :
            LET perf == perf_filter(artifacts)
            IN  /\ log' = Append(log, Event("list_artifacts", i, run_ids[i], <<>>, "",
                                            TRUE, artifacts))
                /\ IF perf = <<>>
                   THEN /\ diag' = Append(diag, Message("skip_run", "stdout", run_ids[i],
                                                        "", "", 0))
                        /\ i' = i + 1
                        /\ UNCHANGED <<pc, perf_artifacts, j>>
                   ELSE /\ perf_artifacts' = perf
                        /\ j' = 1
                        /\ pc' = "download"
                        /\ UNCHANGED <<i, diag>>
                /\ UNCHANGED <<args_ids, run_ids, pending, tmp, by_bench, collected,
                               passes, exit_status, traceback, values, s_out, seconds, text>>

\* where the loops go once `left` files of the current artifact remain
advance(left) ==
    /\ pending' = left
    /\ IF left # {} THEN pc' = "parse" /\ UNCHANGED <<i, j>>
       ELSE IF j < Len(perf_artifacts) THEN pc' = "download" /\ j' = j + 1 /\ UNCHANGED i
       ELSE pc' = "list" /\ i' = i + 1 /\ UNCHANGED j

download_artifact ==
    /\ pc = "download"
    /\ LET name == perf_artifacts[j].name
           call(ok) == Event("download", i, run_ids[i], name, "", ok, <<>>)
           unzip(ok) == Event("extract", i, run_ids[i], name, "", ok, <<>>)
       IN  \/ raise_in_collect("CalledProcessError", <<call(FALSE)>>)
           \/ raise_in_collect("BadZipFile", <<call(TRUE), unzip(FALSE)>>)
           \/ \E bundle \in Bundles :
                LET dirs == extractall(tmp.dirs, name, bundle)
                IN  /\ log' = log \o <<call(TRUE), unzip(TRUE)>>
                    /\ tmp' = [tmp EXCEPT !.dirs = dirs]
                    /\ advance(DOMAIN dirs[name])
                    /\ UNCHANGED <<args_ids, run_ids, perf_artifacts, by_bench, collected,
                                   diag, passes, exit_status, traceback,
                                   values, s_out, seconds, text>>

\* one turn of `for json_file in out_dir.glob("*.json")`; glob's order is
\* the directory's, which is unspecified
parse_file ==
    /\ pc = "parse"
    /\ \E stem \in pending :
        LET name == perf_artifacts[j].name
            c == tmp.dirs[name][stem]
            ev(ok) == Event("parse", i, run_ids[i], name, stem, ok, <<>>)
            result == [run |-> run_ids[i], idx |-> i, keys |-> c.keys,
                       min |-> c.min, mean |-> c.mean]
        IN  IF ~c.valid
            THEN raise_in_collect("JSONDecodeError", <<ev(FALSE)>>)
            ELSE IF ~({"times", "mean"} \subseteq c.keys)
            \* the result is appended, then the print of line 117 raises
            THEN raise_in_collect("KeyError", <<ev(FALSE)>>)
            ELSE /\ by_bench' = setdefault_append(by_bench, stem, result)
                 /\ log' = Append(log, ev(TRUE))
                 /\ advance(pending \ {stem})
                 /\ UNCHANGED <<args_ids, run_ids, perf_artifacts, tmp, collected, diag,
                                passes, exit_status, traceback,
                                values, s_out, seconds, text>>

collect_return ==
    /\ pc = "list"
    /\ i > Len(run_ids)
    /\ tmp' = tmp_exit(tmp)
    /\ collected' = TRUE
    /\ pc' = "check"
    /\ UNCHANGED <<args_ids, run_ids, i, perf_artifacts, j, pending, by_bench, log, diag,
                   passes, exit_status, traceback, values, s_out, seconds, text>>

(***************************************************************************)
(* analyze.                                                                *)
(***************************************************************************)
\* faulty variant: a single value is enough
too_few_off(vals) == Len(vals) < 1

\* len(values) < 2
too_few(vals) == Len(vals) < 2

\* r[key] for the two keys analyze uses
field(r, key) == IF key = "min" THEN r.min ELSE r.mean

RECURSIVE build_rows(_, _, _, _, _)
\* The loop `for bench, results in by_bench.items()` from position k on:
\* the rows in insertion order, the diagnostics printed, and whether r[key]
\* raised KeyError (which ends the loop where it happens).
build_rows(bb, label, key, k, acc) ==
    IF k > Len(bb.order) THEN acc
    ELSE LET bench == bb.order[k]
             results == bb.groups[bench]
             vals == [m \in 1..Len(results) |-> field(results[m], key)]
         IN  IF \E m \in 1..Len(results) : key \notin results[m].keys
             THEN [acc EXCEPT !.error = TRUE]
             ELSE IF too_few(vals)
             THEN build_rows(bb, label, key, k + 1,
                      [acc EXCEPT !.skipped = Append(@, Message("skip_bench", "stderr", 0,
                                                                bench, label, Len(vals)))])
             ELSE build_rows(bb, label, key, k + 1,
                      [acc EXCEPT !.rows = Append(@, [bench |-> bench, s |-> stats(vals)])])

\* key=lambda x: -x[1]["_cv_raw"], compared: x sorts strictly before y
sorts_before(x, y) == FracLess(y.s.cv_raw, x.s.cv_raw)

RECURSIVE insert_row(_, _)
\* x put behind every row of the sorted sequence it does not sort before
insert_row(sorted_rows, x) ==
    IF sorted_rows = <<>> THEN <<x>>
    ELSE IF sorts_before(x, Head(sorted_rows)) THEN <<x>> \o sorted_rows
    ELSE <<Head(sorted_rows)>> \o insert_row(Tail(sorted_rows), x)

RECURSIVE sorted(_)
\* sorted(rows.items(), key=...): a stable sort
sorted(rows) ==
    IF rows = <<>> THEN <<>>
    ELSE insert_row(sorted(SubSeq(rows, 1, Len(rows) - 1)), rows[Len(rows)])

\* one turn of `for label, key in [("MIN", "min"), ("MEAN", "mean")]`
analyze_pass(label, key, at, next) ==
    /\ pc = at
    /\ LET built == build_rows(by_bench, label, key, 1,
                               [rows |-> <<>>, skipped |-> <<>>, error |-> FALSE])
       IN  /\ diag' = diag \o built.skipped
           /\ IF built.error
              THEN /\ Terminate("KeyError")
                   /\ UNCHANGED passes
              ELSE /\ passes' = Append(passes,
                          [label |-> label,
                           printed |-> built.rows # <<>>,
                           \* len(next(iter(by_bench.values()), '') or [])
                           runs |-> IF by_bench.order = <<>> THEN 0
                                    ELSE Len(by_bench.groups[by_bench.order[1]]),
                           rows |-> sorted(built.rows)])
                   /\ pc' = next
                   /\ exit_status' = IF next = "done" THEN 0 ELSE exit_status
                   /\ UNCHANGED traceback
    /\ UNCHANGED <<args_ids, run_ids, i, perf_artifacts, j, pending, tmp, by_bench,
                   collected, log, values, s_out, seconds, text>>

analyze_min == analyze_pass("MIN", "min", "min", "mean")
analyze_mean == analyze_pass("MEAN", "mean", "mean", "done")

(***************************************************************************)
(* main, after collect_jsons.                                              *)
(***************************************************************************)
\* faulty variant: the check for an empty result is missing
no_results_never(bb) == FALSE

\* `not by_bench`
no_results(bb) == bb.order = <<>>

main_check ==
    /\ pc = "check"
    /\ IF no_results(by_bench)
       THEN /\ diag' = Append(diag, Message("no_results", "stderr", 0, "", "", 0))
            /\ pc' = "done"
            /\ exit_status' = 1
       ELSE /\ pc' = "min"
            /\ UNCHANGED <<diag, exit_status>>
    /\ UNCHANGED <<args_ids, run_ids, i, perf_artifacts, j, pending, tmp, by_bench,
                   collected, log, passes, traceback, values, s_out, seconds, text>>

(***************************************************************************)
(* The program.                                                            *)
(***************************************************************************)
Idle ==
    /\ run_ids = <<>> /\ i = 0 /\ perf_artifacts = <<>> /\ j = 0 /\ pending = {}
    /\ tmp = NoTmp /\ log = <<>> /\ diag = <<>> /\ passes = <<>>
    /\ exit_status = -1 /\ traceback = "none"

Init ==
    /\ pc = "start"
    /\ args_ids \in ArgIds
    /\ by_bench = EmptyBench
    /\ collected = FALSE
    /\ Idle
    /\ values = <<>> /\ s_out = <<>> /\ seconds = 0 /\ text = <<>>

Next ==
    \/ main_supplied
    \/ get_run_ids
    \/ collect_enter
    \/ list_artifacts
    \/ download_artifact
    \/ parse_file
    \/ collect_return
    \/ main_check
    \/ analyze_min
    \/ analyze_mean

Spec == Init /\ [][Next]_vars

(***************************************************************************)
(* analyze on its own: by_bench drawn from bounded sets.  The k-th result  *)
(* of a group stands for run k; its mean lies one Step above its min.      *)
(***************************************************************************)
Vals == {k * Step : k \in -MaxVal..MaxVal}

GroupInputs(n) ==
    {[k \in 1..Len(q) |-> [run |-> k, idx |-> k, keys |-> {"times", "mean", "min"},
                           min |-> q[k], mean |-> q[k] + Step]] :
        q \in SeqsUpTo(Vals, n) \ {<<>>}}

BenchInputs(n) ==
    {[order |-> o, groups |-> ("a" :> ga) @@ ("b" :> gb)] :
        o \in {<<"a", "b">>, <<"b", "a">>}, ga \in GroupInputs(n), gb \in GroupInputs(n)}

InitAnalyze ==
    /\ pc = "min"
    /\ args_ids = <<>>
    /\ by_bench \in BenchInputs(MaxGroup)
    /\ collected = TRUE
    /\ Idle
    /\ values = <<>> /\ s_out = <<>> /\ seconds = 0 /\ text = <<>>

NextAnalyze == analyze_min \/ analyze_mean

SpecAnalyze == InitAnalyze /\ [][NextAnalyze]_vars

(***************************************************************************)
(* stats and format_duration on their own.                                 *)
(***************************************************************************)
ValueLists == SeqsUpTo(Vals, MaxN) \ {<<>>}

call_stats ==
    /\ pc = "stats"
    /\ s_out' = <<stats(values)>>
    /\ pc' = "idle"
    /\ UNCHANGED <<args_ids, run_ids, i, perf_artifacts, j, pending, tmp, by_bench,
                   collected, log, diag, passes, exit_status, traceback,
                   values, seconds, text>>

InitStats ==
    /\ pc = "stats"
    /\ args_ids = <<>>
    /\ by_bench = EmptyBench
    /\ collected = FALSE
    /\ Idle
    /\ values \in ValueLists
    /\ s_out = <<>> /\ seconds = 0 /\ text = <<>>

SpecStats == InitStats /\ [][call_stats]_vars

\* durations around the two thresholds and around zero, and the three
\* durations of the documented examples (0.5 us, 1.5 ms, 1.5 s)
FormatInputs ==
    UNION {(t - MaxDelta)..(t + MaxDelta) : t \in {0, 100000, 100000000}}
        \cup {50, 150000, 150000000}

call_format_duration ==
    /\ pc = "format"
    /\ text' = <<format_duration(seconds)>>
    /\ pc' = "idle"
    /\ UNCHANGED <<args_ids, run_ids, i, perf_artifacts, j, pending, tmp, by_bench,
                   collected, log, diag, passes, exit_status, traceback,
                   values, s_out, seconds>>

InitFormat ==
    /\ pc = "format"
    /\ args_ids = <<>>
    /\ by_bench = EmptyBench
    /\ collected = FALSE
    /\ Idle
    /\ seconds \in FormatInputs
    /\ values = <<>> /\ s_out = <<>> /\ text = <<>>

SpecFormat == InitFormat /\ [][call_format_duration]_vars

(***************************************************************************)
(* Properties.                                                             *)
(***************************************************************************)
InCollect == {"list", "download", "parse"}

Events(op) == {k \in DOMAIN log : log[k].op = op}
Printed(msg) == {k \in DOMAIN diag : diag[k].msg = msg}
Results(b) == by_bench.groups[b]
Benches == DOMAIN by_bench.groups

\* the workflow-run listing answered and held no successful run on the branch
NoRunFound ==
    \E k \in Events("list_runs") :
        /\ log[k].ok
        /\ \A m \in DOMAIN log[k].arts :
              log[k].arts[m].head_branch # Branch \/ log[k].arts[m].conclusion # "success"

\* collect_jsons went over all run identifiers and returned no record
NoRecordCollected == collected /\ Benches = {}

\* C1 as stated: the exit status is non-zero when discovery finds no
\* successful run, non-zero with a diagnostic and no unhandled exception
\* when collection returns no record, and zero in every other execution.
C1_ExitStatusAsStated ==
    pc = "done" =>
        /\ NoRunFound => exit_status # 0
        /\ NoRecordCollected =>
              exit_status # 0 /\ traceback = "none" /\ Printed("no_results") # {}
        /\ ~NoRunFound /\ ~NoRecordCollected => exit_status = 0

\* C1 amended: as stated, but an execution in which an error is raised
\* (a failed remote call, a bad bundle, a result file that cannot be parsed
\* or lacks a key that is read) ends with a non-zero status as well; the
\* status is zero in every execution that is none of the three.
C1_ExitStatus ==
    /\ pc # "done" => exit_status = -1
    /\ pc = "done" =>
        /\ NoRunFound =>
              exit_status = 1 /\ traceback = "none" /\ Printed("no_runs") # {}
        /\ NoRecordCollected =>
              exit_status = 1 /\ traceback = "none" /\ Printed("no_results") # {}
        /\ traceback # "none" => exit_status = 1
        /\ ~NoRunFound /\ ~NoRecordCollected /\ traceback = "none" => exit_status = 0

\* every run had perfcompare artifacts, none held a result file: exit 1
C1_Witness ==
    /\ pc = "done" /\ exit_status = 1 /\ NoRecordCollected
    /\ Events("extract") # {}
    /\ Printed("skip_run") = {}

\* C2: the temporary directory exists while collect_jsons is inside its with
\* block and no longer exists, with nothing left in it, anywhere else,
\* whichever way the block was left.
C2_TmpRemoved ==
    /\ pc \in InCollect => tmp.exists
    /\ pc \notin InCollect => tmp = NoTmp

\* files were extracted, then a later download failed: the directory is gone
C2_Witness ==
    /\ pc = "done" /\ traceback = "CalledProcessError" /\ ~tmp.exists
    /\ \E k \in Events("parse") : log[k].ok
    /\ log[Len(log)].op = "download"

HasPerfPrefix(a) == a.name[1] = "perfcompare-"

\* the listings that answered with no artifact named perfcompare-...
SkippedListings ==
    {k \in Events("list_artifacts") :
        log[k].ok /\ \A m \in DOMAIN log[k].arts : ~HasPerfPrefix(log[k].arts[m])}

\* C3: for a run whose listing holds no perfcompare- artifact, a diagnostic
\* is printed, nothing is downloaded, extracted or parsed, no group gets a
\* record for it, and the program goes on with the next run identifier (or
\* returns from collect_jsons if it was the last).
C3_SkipNotFatal ==
    \A k \in SkippedListings :
        LET e == log[k]
        IN  /\ \E d \in Printed("skip_run") : diag[d].run = e.run
            /\ \A m \in DOMAIN log :
                  log[m].idx = e.idx => log[m].op \notin {"download", "extract", "parse"}
            /\ \A b \in Benches : \A m \in DOMAIN Results(b) : Results(b)[m].idx # e.idx
            /\ k < Len(log) =>
                  log[k + 1].op = "list_artifacts" /\ log[k + 1].idx = e.idx + 1
            /\ k = Len(log) /\ e.idx < Len(run_ids) =>
                  pc = "list" /\ i = e.idx + 1 /\ exit_status = -1
            /\ k = Len(log) /\ e.idx = Len(run_ids) =>
                  (pc = "list" /\ i = e.idx + 1) \/ collected

\* the first run was skipped, the second one loaded, the tables were printed
C3_Witness ==
    /\ pc = "done" /\ exit_status = 0
    /\ \E k \in SkippedListings : log[k].idx = 1 /\ log[k].arts # <<>>
    /\ \E b \in Benches : \E m \in DOMAIN Results(b) : Results(b)[m].idx = 2

\* C4: a failed remote call, extraction or parse is the last thing the
\* program does: nothing follows it in the history (no retry, no later run
\* or artifact), the process has ended with status 1 on the unhandled
\* exception, and no table was printed.  A supplied run identifier whose
\* listing fails is no exception: the skip diagnostic is printed only for
\* listings that answered.
C4_FailureIsFatal ==
    /\ Cardinality(Printed("skip_run")) = Cardinality(SkippedListings)
    /\ \A k \in DOMAIN log :
         ~log[k].ok =>
            /\ k = Len(log)
            /\ pc = "done" /\ exit_status = 1 /\ traceback # "none"
            /\ passes = <<>>

\* the listing of the second supplied run identifier failed
C4_Witness ==
    /\ args_ids # <<>>
    /\ pc = "done" /\ exit_status = 1
    /\ log[Len(log)].op = "list_artifacts" /\ ~log[Len(log)].ok /\ log[Len(log)].idx = 2
    /\ \E k \in Events("parse") : log[k].ok

Complete(r) == {"min", "mean"} \subseteq r.keys
AllComplete == \A b \in Benches : \A m \in DOMAIN Results(b) : Complete(Results(b)[m])
RowsOf(t, b) == {k \in DOMAIN t.rows : t.rows[k].bench = b}

\* C5: in the table of each completed pass a benchmark with fewer than two
\* records has no row and a diagnostic of that pass, a benchmark with two or
\* more records has exactly one row; a pass is left only by a record that
\* lacks the key read, so MIN is followed by MEAN and MEAN by exit status 0.
C5_RowsPerPass ==
    /\ \A p \in DOMAIN passes :
        LET t == passes[p]
        IN  /\ t.label = IF p = 1 THEN "MIN" ELSE "MEAN"
            /\ t.printed = (t.rows # <<>>)
            /\ \A k \in DOMAIN t.rows : t.rows[k].bench \in Benches
            /\ \A b \in Benches :
                  IF Len(Results(b)) < 2
                  THEN /\ RowsOf(t, b) = {}
                       /\ \E d \in Printed("skip_bench") :
                             diag[d].bench = b /\ diag[d].label = t.label
                  ELSE Cardinality(RowsOf(t, b)) = 1
    /\ pc = "mean" => Len(passes) = 1
    /\ pc = "done" /\ collected /\ Benches # {} /\ AllComplete =>
          Len(passes) = 2 /\ exit_status = 0 /\ traceback = "none"

\* both passes ran over a group of one record and a group of two
C5_Witness ==
    /\ pc = "done" /\ Len(passes) = 2
    /\ \E a, b \in Benches : Len(Results(a)) = 1 /\ Len(Results(b)) >= 2
    /\ passes[1].printed /\ passes[2].printed

\* C8 as stated: once collect_jsons has returned, the records of a group
\* come from pairwise distinct runs.
C8_DistinctRunsAsStated ==
    collected =>
        \A b \in Benches : \A k, m \in DOMAIN Results(b) :
            k # m => Results(b)[k].run # Results(b)[m].run

\* C9: with run identifiers supplied, the workflow runs are never listed,
\* run_ids is the supplied list, the artifact listings go through it in
\* order, and the "no successful runs" exit does not happen.
C9_SuppliedIds ==
    args_ids # <<>> =>
        /\ Events("list_runs") = {}
        /\ Printed("no_runs") = {}
        /\ pc # "start" => run_ids = args_ids
        /\ LET listed == SelectSeq(log, LAMBDA e : e.op = "list_artifacts")
           IN  /\ Len(listed) <= Len(args_ids)
               /\ \A k \in DOMAIN listed : listed[k].idx = k /\ listed[k].run = args_ids[k]
        /\ collected => Cardinality(Events("list_artifacts")) = Len(args_ids)

\* the supplied list <<2, 1>> was analysed in that order
C9_Witness ==
    /\ args_ids = <<2, 1>> /\ pc = "done" /\ exit_status = 0
    /\ Cardinality(Events("list_artifacts")) = 2

Cv(r) == r.s.cv_raw
Undefined(r) == r.s.cv.na

\* C6 as stated: in each printed table the rows are in descending order of
\* the coefficient of variation, and every row whose coefficient is
\* undefined (N/A) comes after every row whose coefficient is defined.
C6_SortOrderAsStated ==
    \A p \in DOMAIN passes :
        \A k, m \in DOMAIN passes[p].rows :
            LET x == passes[p].rows[k]
                y == passes[p].rows[m]
            IN  k < m =>
                  /\ ~Undefined(x) /\ ~Undefined(y) => ~FracLess(Cv(x), Cv(y))
                  /\ ~(Undefined(x) /\ ~Undefined(y))

AllEqual(vals) == \A k \in DOMAIN vals : vals[k] = vals[1]
Zero == [unit |-> "us", digits |-> 0]

\* C7 as stated: for a non-empty list of equal values stats reports a
\* standard deviation of 0 and a coefficient of variation of 0%.
C7_EqualValuesAsStated ==
    s_out # <<>> /\ AllEqual(values) =>
        /\ s_out[1].std = Zero
        /\ ~s_out[1].cv.na /\ s_out[1].cv.tenths = 0

\* C7 amended: for a non-empty list of equal values v, stats reports a
\* standard deviation of 0; the coefficient of variation is reported as
\* 0.0% when v > 0, as -0.0% when v < 0, and as N/A when v = 0.
C7_EqualValues ==
    s_out # <<>> /\ AllEqual(values) =>
        /\ s_out[1].std = Zero
        /\ s_out[1].range = Zero
        /\ values[1] = 0 => s_out[1].cv.na /\ s_out[1].cv_raw = Frac(-1, 1)
        /\ values[1] # 0 =>
              /\ ~s_out[1].cv.na /\ s_out[1].cv.tenths = 0
              /\ s_out[1].cv.neg = (values[1] < 0)

\* three equal positive values went through stats
C7_Witness ==
    /\ s_out # <<>> /\ Len(values) = 3 /\ AllEqual(values) /\ values[1] > 0
    /\ s_out[1].cv = [na |-> FALSE, neg |-> FALSE, tenths |-> 0]

\* C10: the unit follows from the value alone: microseconds under 1 ms
\* (10^5 ticks), milliseconds from 1 ms up to but not including 1 s (10^8
\* ticks), seconds from 1 s on; the number shown is the duration in that
\* unit, to within half a unit of the last decimal.
C10_UnitByValue ==
    text # <<>> =>
        LET t == text[1]
        IN  /\ t.unit \in {"us", "ms", "s"}
            /\ (t.unit = "us") = (seconds < 100000)
            /\ (t.unit = "ms") = (seconds >= 100000 /\ seconds < 100000000)
            /\ (t.unit = "s") = (seconds >= 100000000)
            /\ t.unit = "us" => t.digits = seconds
            /\ t.unit = "ms" => 2 * Abs(t.digits * 1000 - seconds) <= 1000
            /\ t.unit = "s" => 2 * Abs(t.digits * 100000 - seconds) <= 100000

\* the last duration under one second: rendered in milliseconds
C10_Witness ==
    text # <<>> /\ seconds = 99999999 /\ text[1] = [unit |-> "ms", digits |-> 100000]

====
